---- MODULE Spec2Model ----
(***************************************************************************)
(* Model of the etherspy packet codecs: discv4 Decode (mac check, sender   *)
(* recovery, type dispatch, RLP body decoding) and discv5 Decode (header   *)
(* unmasking and static-header validation).  A buffer is a sequence of     *)
(* bytes (0..255), indexed from 1; the Go slice buf[lo:hi] is              *)
(* SubSeq(buf, lo+1, hi).                                                  *)
(***************************************************************************)
EXTENDS Integers, Sequences, FiniteSets, TLC

VARIABLES buf0, buf, nid, op, hash, p, ptype, id, err, panicked, acc, cipher,
          prog, pkts, lstate, logged, ticks, cv

\* One decoder call: its input, its results and what it did to the buffer.
decvars == <<buf0, buf, nid, op, hash, p, ptype, id, err, panicked, acc, cipher>>

\* The capture loop of main: which main runs, the packets the source has yet
\* to deliver, where the loop stands, what it logged, the ticks it served.
loopvars == <<prog, pkts, lstate, logged, ticks>>

vars == <<decvars, loopvars, cv>>

(***************************************************************************)
(* Byte helpers.                                                           *)
(***************************************************************************)
Byte == 0..255

Rep(b, n) == [i \in 1..n |-> b]

\* Go's buf[lo:hi] (0-based, hi exclusive).
Slice(s, lo, hi) == SubSeq(s, lo + 1, hi)

RECURSIVE Xor(_, _)
Xor(a, b) ==
  IF a = 0 THEN b
  ELSE IF b = 0 THEN a
  ELSE (((a % 2) + (b % 2)) % 2) + 2 * Xor(a \div 2, b \div 2)

\* The checksums' modulus, a prime below 2^15.
CheckMod == 32768 - 19

RECURSIVE Pow31(_)
\* 31^n modulo CheckMod, by squaring.
Pow31(n) ==
  IF n = 0 THEN 1
  ELSE IF n % 2 = 0 THEN LET sq(h) == (h * h) % CheckMod IN sq(Pow31(n \div 2))
  ELSE (31 * Pow31(n - 1)) % CheckMod

RECURSIVE Poly(_, _, _)
\* The polynomial checksum of s[i..j]: the sum of (s[k] + 1) * 31^(j - k)
\* modulo CheckMod, computed by halving the range.
Poly(s, i, j) ==
  IF i > j THEN 0
  ELSE IF i = j THEN s[i] + 1
  ELSE LET m == (i + j) \div 2
       IN  ((Poly(s, i, m) * Pow31(j - m)) + Poly(s, m + 1, j)) % CheckMod

\* Checksum of the byte string s continuing from acc0.
Fold(s, acc0) == ((acc0 * Pow31(Len(s))) + Poly(s, 1, Len(s))) % CheckMod

(***************************************************************************)
(* discv4: sizes and packet kinds.                                         *)
(***************************************************************************)
macSize == 32
sigSize == 65
headSize == macSize + sigSize

PacketPing == 1
PacketPong == 2
PacketFindNode == 3
PacketNeighbors == 4
PacketENRRequest == 5
PacketENRResponse == 6

NodeIDLen == 64
ZeroNodeID == Rep(0, NodeIDLen)

\* crypto.Keccak256: a 32-byte digest of the input.  The digest function is
\* a deterministic checksum standing for the library's hash.
Keccak256(s) ==
  LET digest(h) == [i \in 1..32 |-> ((h * i) + (h \div 256) + (i * i)) % 256]
  IN  digest(Fold(s, Len(s) + 7))

\* secp256k1.RecoverPubkey(hash, sig): rejects a signature that is not 65
\* bytes, one whose recovery id (last byte) is 4 or more, and one the curve
\* arithmetic cannot recover (here: r starting with a zero byte); otherwise
\* the 65-byte uncompressed key, 0x04 followed by 64 bytes.
RecoverPubkey(h, sig) ==
  IF Len(sig) # 65 THEN [err |-> "invalid signature length", pubkey |-> <<>>]
  ELSE IF sig[65] >= 4 THEN [err |-> "invalid signature recovery id", pubkey |-> <<>>]
  ELSE IF sig[1] = 0 THEN [err |-> "recovery failed", pubkey |-> <<>>]
  ELSE LET key(k) == <<4>> \o [i \in 1..64 |-> ((k * i) + (k \div 256) + 1) % 256]
       IN  [err |-> "nil", pubkey |-> key(Fold(sig, Fold(h, 1)))]

recoverNodeID(h, sig) ==
  LET K(r) ==
        IF r.err # "nil" THEN [id |-> ZeroNodeID, err |-> r.err]
        ELSE IF Len(r.pubkey) - 1 # NodeIDLen
          THEN [id |-> ZeroNodeID, err |-> "recovered pubkey has wrong size"]
        ELSE [id |-> [i \in 1..NodeIDLen |-> r.pubkey[i + 1]], err |-> "nil"]
  IN  K(RecoverPubkey(h, sig))

(***************************************************************************)
(* RLP stream decoding (rlp.NewStream(r, 0).Decode(p)) of the discv4 body. *)
(* A decoder reads input b from position pos (1-based); lim is one past    *)
(* the last byte of the innermost enclosing list, or of the input at top   *)
(* level.  Results are [err, val, pos].  Unsigned integers are kept as     *)
(* their canonical big-endian byte strings, so any width is exact.         *)
(***************************************************************************)
ErrNil == "nil"
EOL == "rlp: end of list"
EOF == "EOF"
ErrExpectedString == "rlp: expected String or Byte"
ErrExpectedList == "rlp: expected List"
ErrCanonInt == "rlp: non-canonical integer format"
ErrCanonSize == "rlp: non-canonical size information"
ErrElemTooLarge == "rlp: element is larger than containing list"
ErrValueTooLarge == "rlp: value size exceeds available input length"
ErrUintOverflow == "rlp: uint overflow"
ErrNotAtEOL == "rlp: input list has too many elements"
ErrTooFew == "rlp: too few elements"
ErrArrayTooLong == "rlp: input string too long"
ErrArrayTooShort == "rlp: input string too short"

\* A size no input of the model reaches; stands for every size of 2^24 or more.
HugeSize == 256 * 256 * 256

RECURSIVE BE(_, _, _)
\* Big-endian value of b[i..j].
BE(b, i, j) == IF i > j THEN 0 ELSE (BE(b, i, j - 1) * 256) + b[j]

RECURSIVE IntToBE(_)
\* putint: the minimal big-endian bytes of n > 0.
IntToBE(n) == IF n = 0 THEN <<>> ELSE Append(IntToBE(n \div 256), n % 256)

\* Stream.readUint as used for a size: n header bytes at b[i..i+n-1].
readSize(b, i, n) ==
  IF n > 1 /\ b[i] = 0 THEN [err |-> ErrCanonSize, size |-> 0]
  ELSE IF n > 3 THEN [err |-> ErrNil, size |-> HugeSize]
  ELSE [err |-> ErrNil, size |-> BE(b, i, i + n - 1)]

\* Stream.Kind / readKind: the kind and size of the next item, with the size
\* checked against the enclosing list and the remaining input.  ps is the
\* position of the payload.
Kind(b, pos, lim, top) ==
  LET tooLarge == IF top THEN ErrValueTooLarge ELSE ErrElemTooLarge
      bad(e) == [err |-> e, kind |-> "none", size |-> 0, ps |-> pos, byteval |-> 0]
  IN  IF pos >= lim THEN bad(IF top THEN EOF ELSE EOL)
      ELSE LET b0 == b[pos] IN
        IF b0 < 128 THEN
          [err |-> ErrNil, kind |-> "Byte", size |-> 0, ps |-> pos + 1, byteval |-> b0]
        ELSE IF b0 < 184 \/ (b0 >= 192 /\ b0 < 248) THEN
          LET k == IF b0 < 184 THEN "String" ELSE "List"
              sz == IF b0 < 184 THEN b0 - 128 ELSE b0 - 192
          IN  IF pos + 1 + sz > lim THEN bad(tooLarge)
              ELSE [err |-> ErrNil, kind |-> k, size |-> sz, ps |-> pos + 1, byteval |-> 0]
        ELSE
          LET k == IF b0 < 192 THEN "String" ELSE "List"
              n == IF b0 < 192 THEN b0 - 183 ELSE b0 - 247
          IN  IF pos + 1 + n > lim THEN bad(tooLarge)
              ELSE LET long(r) ==
                         IF r.err # ErrNil THEN bad(r.err)
                         ELSE IF r.size < 56 THEN bad(ErrCanonSize)
                         ELSE IF pos + 1 + n + r.size > lim THEN bad(tooLarge)
                         ELSE [err |-> ErrNil, kind |-> k, size |-> r.size,
                               ps |-> pos + 1 + n, byteval |-> 0]
                   IN  long(readSize(b, pos + 1, n))

\* puthead: the canonical header of a payload of the given size.
puthead(smalltag, largetag, size) ==
  IF size < 56 THEN <<smalltag + size>>
  ELSE LET head(sz) == <<largetag + Len(sz)>> \o sz IN head(IntToBE(size))

\* Stream.Raw: the next item's encoding, rebuilt as header plus payload.
Raw(b, pos, lim) ==
  LET K(h) ==
      IF h.err # ErrNil THEN [err |-> h.err, val |-> <<>>, pos |-> pos]
      ELSE IF h.kind = "Byte" THEN [err |-> ErrNil, val |-> <<h.byteval>>, pos |-> pos + 1]
      ELSE [err |-> ErrNil,
            val |-> (IF h.kind = "String" THEN puthead(128, 183, h.size)
                     ELSE puthead(192, 247, h.size))
                    \o SubSeq(b, h.ps, h.ps + h.size - 1),
            pos |-> h.ps + h.size]
  IN  K(Kind(b, pos, lim, FALSE))

\* Stream.Bytes (decodeByteSlice): net.IP and ReplyTok.
decodeBytes(b, pos, lim) ==
  LET K(h) ==
      IF h.err # ErrNil THEN [err |-> h.err, val |-> <<>>, pos |-> pos]
      ELSE IF h.kind = "Byte" THEN [err |-> ErrNil, val |-> <<h.byteval>>, pos |-> pos + 1]
      ELSE IF h.kind = "List" THEN [err |-> ErrExpectedString, val |-> <<>>, pos |-> pos]
      ELSE IF h.size = 1 /\ b[h.ps] < 128 THEN [err |-> ErrCanonSize, val |-> <<>>, pos |-> pos]
      ELSE [err |-> ErrNil, val |-> SubSeq(b, h.ps, h.ps + h.size - 1), pos |-> h.ps + h.size]
  IN  K(Kind(b, pos, lim, FALSE))

\* Stream.uint (decodeUint) for an integer of maxbytes bytes.
decodeUint(b, pos, lim, maxbytes) ==
  LET K(h) ==
      IF h.err # ErrNil THEN [err |-> h.err, val |-> <<>>, pos |-> pos]
      ELSE IF h.kind = "Byte" THEN
        IF h.byteval = 0 THEN [err |-> ErrCanonInt, val |-> <<>>, pos |-> pos]
        ELSE [err |-> ErrNil, val |-> <<h.byteval>>, pos |-> pos + 1]
      ELSE IF h.kind = "List" THEN [err |-> ErrExpectedString, val |-> <<>>, pos |-> pos]
      ELSE IF h.size > maxbytes THEN [err |-> ErrUintOverflow, val |-> <<>>, pos |-> pos]
      ELSE IF h.size > 1 /\ b[h.ps] = 0 THEN [err |-> ErrCanonInt, val |-> <<>>, pos |-> pos]
      ELSE IF h.size = 1 /\ b[h.ps] < 128 THEN [err |-> ErrCanonSize, val |-> <<>>, pos |-> pos]
      ELSE [err |-> ErrNil, val |-> SubSeq(b, h.ps, h.ps + h.size - 1), pos |-> h.ps + h.size]
  IN  K(Kind(b, pos, lim, FALSE))

\* decodeByteArray for an array of n > 1 bytes: NodeID.
decodeByteArray(b, pos, lim, n) ==
  LET K(h) ==
      IF h.err # ErrNil THEN [err |-> h.err, val |-> Rep(0, n), pos |-> pos]
      ELSE IF h.kind = "Byte" THEN [err |-> ErrArrayTooShort, val |-> Rep(0, n), pos |-> pos]
      ELSE IF h.kind = "List" THEN [err |-> ErrExpectedString, val |-> Rep(0, n), pos |-> pos]
      ELSE IF h.size > n THEN [err |-> ErrArrayTooLong, val |-> Rep(0, n), pos |-> pos]
      ELSE IF h.size < n THEN [err |-> ErrArrayTooShort, val |-> Rep(0, n), pos |-> pos]
      ELSE [err |-> ErrNil, val |-> SubSeq(b, h.ps, h.ps + h.size - 1), pos |-> h.ps + h.size]
  IN  K(Kind(b, pos, lim, FALSE))

(***************************************************************************)
(* The discv4 message structs: field order, field types, the tail slot.    *)
(***************************************************************************)
StructTypes == {"rpcEndpoint", "rpcNode", "Ping", "Pong", "FindNode", "Neighbors"}

\* The message structs declared without their Rest tail field.
structFieldsNoTail(T) ==
  CASE T = "rpcEndpoint" -> <<<<"IP", "bytes">>, <<"UDP", "uint16">>, <<"TCP", "uint16">>>>
    [] T = "rpcNode" -> <<<<"IP", "bytes">>, <<"UDP", "uint16">>, <<"TCP", "uint16">>,
                          <<"ID", "NodeID">>>>
    [] T = "Ping" -> <<<<"Version", "uint">>, <<"From", "rpcEndpoint">>,
                       <<"To", "rpcEndpoint">>, <<"Expiration", "uint64">>>>
    [] T = "Pong" -> <<<<"To", "rpcEndpoint">>, <<"ReplyTok", "bytes">>,
                       <<"Expiration", "uint64">>>>
    [] T = "FindNode" -> <<<<"Target", "NodeID">>, <<"Expiration", "uint64">>>>
    [] T = "Neighbors" -> <<<<"Nodes", "[]rpcNode">>, <<"Expiration", "uint64">>>>

structFields(T) ==
  CASE T = "rpcEndpoint" -> <<<<"IP", "bytes">>, <<"UDP", "uint16">>, <<"TCP", "uint16">>>>
    [] T = "rpcNode" -> <<<<"IP", "bytes">>, <<"UDP", "uint16">>, <<"TCP", "uint16">>,
                          <<"ID", "NodeID">>>>
    [] T = "Ping" -> <<<<"Version", "uint">>, <<"From", "rpcEndpoint">>,
                       <<"To", "rpcEndpoint">>, <<"Expiration", "uint64">>,
                       <<"Rest", "tail">>>>
    [] T = "Pong" -> <<<<"To", "rpcEndpoint">>, <<"ReplyTok", "bytes">>,
                       <<"Expiration", "uint64">>, <<"Rest", "tail">>>>
    [] T = "FindNode" -> <<<<"Target", "NodeID">>, <<"Expiration", "uint64">>,
                           <<"Rest", "tail">>>>
    [] T = "Neighbors" -> <<<<"Nodes", "[]rpcNode">>, <<"Expiration", "uint64">>,
                            <<"Rest", "tail">>>>

zeroEndpoint == [IP |-> <<>>, UDP |-> <<>>, TCP |-> <<>>]

\* new(T): the zero value of a struct.
zero(T) ==
  CASE T = "rpcEndpoint" -> zeroEndpoint
    [] T = "rpcNode" -> [IP |-> <<>>, UDP |-> <<>>, TCP |-> <<>>, ID |-> ZeroNodeID]
    [] T = "Ping" -> [Version |-> <<>>, From |-> zeroEndpoint, To |-> zeroEndpoint,
                      Expiration |-> <<>>, Rest |-> <<>>]
    [] T = "Pong" -> [To |-> zeroEndpoint, ReplyTok |-> <<>>, Expiration |-> <<>>,
                      Rest |-> <<>>]
    [] T = "FindNode" -> [Target |-> ZeroNodeID, Expiration |-> <<>>, Rest |-> <<>>]
    [] T = "Neighbors" -> [Nodes |-> <<>>, Expiration |-> <<>>, Rest |-> <<>>]

RECURSIVE decodeVal(_, _, _, _), decodeStruct(_, _, _, _, _)
RECURSIVE decodeFields(_, _, _, _, _, _), decodeSliceElems(_, _, _, _, _)

\* makeStructDecoder: the list header, each field in order, then ListEnd.
decodeStruct(T, b, pos, lim, top) ==
  LET ListEnd(r, end) ==
        IF r.err # ErrNil THEN r
        ELSE IF r.pos # end THEN [err |-> ErrNotAtEOL, val |-> r.val, pos |-> r.pos]
        ELSE r
      K(h) ==
        IF h.err # ErrNil THEN [err |-> h.err, val |-> zero(T), pos |-> pos]
        ELSE IF h.kind # "List" THEN [err |-> ErrExpectedList, val |-> zero(T), pos |-> pos]
        ELSE ListEnd(decodeFields(T, 1, zero(T), b, h.ps, h.ps + h.size), h.ps + h.size)
  IN  K(Kind(b, pos, lim, top))

\* The field loop of the struct decoder, from field i on.
decodeFields(T, i, val, b, pos, lim) ==
  LET K(f, r) ==
        IF r.err = EOL THEN [err |-> ErrTooFew, val |-> val, pos |-> pos]
        ELSE IF r.err # ErrNil
          THEN [err |-> r.err, val |-> [val EXCEPT ![f[1]] = r.val], pos |-> r.pos]
        ELSE decodeFields(T, i + 1, [val EXCEPT ![f[1]] = r.val], b, r.pos, lim)
      F(f) == K(f, decodeVal(f[2], b, pos, lim))
  IN  IF i > Len(structFields(T)) THEN [err |-> ErrNil, val |-> val, pos |-> pos]
      ELSE F(structFields(T)[i])

\* decodeSliceElems: items of type E until the end of the list.
decodeSliceElems(E, sofar, b, pos, lim) ==
  LET K(r) ==
        IF r.err = EOL THEN [err |-> ErrNil, val |-> sofar, pos |-> pos]
        ELSE IF r.err # ErrNil THEN [err |-> r.err, val |-> sofar, pos |-> r.pos]
        ELSE decodeSliceElems(E, Append(sofar, r.val), b, r.pos, lim)
  IN  K(IF E = "RawValue" THEN Raw(b, pos, lim) ELSE decodeVal(E, b, pos, lim))

\* The decoder of a field of type T inside a list.
decodeVal(T, b, pos, lim) ==
  CASE T = "bytes" -> decodeBytes(b, pos, lim)
    [] T = "uint16" -> decodeUint(b, pos, lim, 2)
    [] T \in {"uint", "uint64"} -> decodeUint(b, pos, lim, 8)
    [] T = "NodeID" -> decodeByteArray(b, pos, lim, NodeIDLen)
    [] T = "tail" -> decodeSliceElems("RawValue", <<>>, b, pos, lim)
    [] T = "[]rpcNode" ->
         LET K(h) ==
               IF h.err # ErrNil THEN [err |-> h.err, val |-> <<>>, pos |-> pos]
               ELSE IF h.kind # "List"
                 THEN [err |-> ErrExpectedList, val |-> <<>>, pos |-> pos]
               ELSE decodeSliceElems("rpcNode", <<>>, b, h.ps, h.ps + h.size)
         IN  K(Kind(b, pos, lim, FALSE))
    [] T \in StructTypes -> decodeStruct(T, b, pos, lim, FALSE)

\* rlp.NewStream(bytes.NewReader(body), 0).Decode(p) for p = new(T).
rlpDecode(T, body) == decodeStruct(T, body, 1, Len(body) + 1, TRUE)

(***************************************************************************)
(* discv4 Decode.  Every slice or index the function takes is logged as    *)
(* <<lo, hi, len>>; one outside [0, len] is Go's run-time panic.           *)
(***************************************************************************)
NilPacket == [kind |-> "nil"]

\* The bounds check of a slice <<lo, hi, len>>; the capacity of a buffer is
\* taken to be its length.
InBounds(a) == 0 <= a[1] /\ a[1] <= a[2] /\ a[2] <= a[3]

Ret4(h, pk, pt, nodeid, e, accs) ==
  [hash |-> h, p |-> pk, ptype |-> pt, id |-> nodeid, err |-> e,
   panicked |-> FALSE, acc |-> accs]

Panic4(accs) ==
  [hash |-> <<>>, p |-> NilPacket, ptype |-> 0, id |-> ZeroNodeID, err |-> "panic",
   panicked |-> TRUE, acc |-> accs]

\* The length guard with the type tag's byte forgotten.
tooSmallNoTag(b) == Len(b) < headSize

\* len(buf) < headSize+1
tooSmall(b) == Len(b) < headSize + 1

\* The mac compared with the hash from its second byte on.
hashOKFromSecond(b) ==
  Slice(b, 1, macSize) = Slice(Keccak256(Slice(b, macSize, Len(b))), 1, macSize)

\* bytes.Equal(hash, crypto.Keccak256(buf[macSize:]))
hashOK(b) == Slice(b, 0, macSize) = Keccak256(Slice(b, macSize, Len(b)))

\* The switch on the type tag: the struct allocated for it, "none" in the
\* default branch.
variantOf(pt) ==
  CASE pt = PacketPing -> "Ping"
    [] pt = PacketPong -> "Pong"
    [] pt = PacketFindNode -> "FindNode"
    [] pt = PacketNeighbors -> "Neighbors"
    [] OTHER -> "none"

UnknownType(pt) == "unknown type: " \o ToString(pt)

discv4_Decode(b) ==
  LET n == Len(b)
      acc1 == {<<0, macSize, n>>, <<macSize, headSize, n>>, <<headSize, n, n>>,
               <<macSize, n, n>>}
      acc2 == acc1 \cup {<<headSize, headSize + 1, n>>}
      acc3 == acc2 \cup {<<headSize + 1, n, n>>}
      h == Slice(b, 0, macSize)
      sig == Slice(b, macSize, headSize)
      sigdata == Slice(b, headSize, n)
      Body(fromID, pt, T, d) == Ret4(h, [kind |-> T, val |-> d.val], pt, fromID, d.err, acc3)
      Dispatch(fromID, pt, T) ==
        IF T = "none" THEN Ret4(h, NilPacket, 0, ZeroNodeID, UnknownType(pt), acc2)
        ELSE Body(fromID, pt, T, rlpDecode(T, Slice(sigdata, 1, Len(sigdata))))
      Recovered(r) ==
        IF r.err # ErrNil THEN Ret4(h, NilPacket, 0, ZeroNodeID, r.err, acc1)
        ELSE IF ~InBounds(<<headSize, headSize + 1, n>>) THEN Panic4(acc2)
        ELSE Dispatch(r.id, sigdata[1], variantOf(sigdata[1]))
  IN
  IF tooSmall(b) THEN Ret4(<<>>, NilPacket, 0, ZeroNodeID, "packet too small", {})
  ELSE IF \E a \in acc1 : ~InBounds(a) THEN Panic4(acc1)
  ELSE IF ~hashOK(b) THEN Ret4(h, NilPacket, 0, ZeroNodeID, "bad hash", acc1)
  ELSE Recovered(recoverNodeID(Keccak256(sigdata), sig))

\* The earlier Decode of discv4.go: the same steps, without the ptype result.
discv4_Decode_v0(b) ==
  LET drop(r) == [r EXCEPT !.ptype = 0] IN drop(discv4_Decode(b))

(***************************************************************************)
(* discv5: header constants, masking cipher, checkValid and Decode.        *)
(***************************************************************************)
flagMessage == 0
flagWhoareyou == 1
flagHandshake == 2

\* "discv5"
protocolID == <<100, 105, 115, 99, 118, 53>>

errTooShort == "packet too short"
errInvalidHeader == "invalid packet header"
errInvalidFlag == "invalid flag value in header"
errMinVersion == "version of packet header below minimum"
errMsgTooShort == "message/handshake packet below minimum size"
errAuthSize == "declared auth size is beyond packet length"
errTODO == "TODO"

minVersion == 1
sizeofMaskingIV == 16
minMessageSize == 48
gcmNonceSize == 12

\* binary.Size(StaticHeader{}): ProtocolID, Version, Flag, Nonce, AuthSize.
sizeofStaticHeader == 6 + 2 + 1 + gcmNonceSize + 2

\* The static packet data counted one byte longer than IV and header.
sizeofStaticPacketDataWide == sizeofMaskingIV + sizeofStaticHeader + 1

sizeofStaticPacketData == sizeofMaskingIV + sizeofStaticHeader

\* Header.mask: the AES/CTR stream keyed by destID[:16] and started at the
\* IV.  Byte i (from 0) of the key stream is a deterministic function of
\* key, IV and i standing for the library's cipher.
keystream(key, iv, i) ==
  LET byte(k) == ((k * ((i % 251) + 1)) + (k \div 256) + i) % 256
  IN  byte(Fold(iv, Fold(key, 3)))

\* cipher.Stream.XORKeyStream(data, data) with the stream at offset off.
XORKeyStream(key, iv, off, data) ==
  [i \in 1..Len(data) |-> Xor(data[i], keystream(key, iv, off + i - 1))]

\* binary.Read(reader, binary.BigEndian, &head.StaticHeader)
readStaticHeader(sh) ==
  [ProtocolID |-> SubSeq(sh, 1, 6),
   Version |-> (sh[7] * 256) + sh[8],
   Flag |-> sh[9],
   Nonce |-> SubSeq(sh, 10, 21),
   AuthSize |-> (sh[22] * 256) + sh[23]]

\* checkValid without the protocol-id comparison.
checkValidNoProtocolID(h, packetLen) ==
  IF h.Version < minVersion THEN errMinVersion
  ELSE IF h.Flag # flagWhoareyou /\ packetLen < minMessageSize THEN errMsgTooShort
  ELSE IF h.AuthSize > packetLen THEN errAuthSize
  ELSE ErrNil

\* checkValid without the auth-size comparison.
checkValidNoAuthSize(h, packetLen) ==
  IF h.ProtocolID # protocolID THEN errInvalidHeader
  ELSE IF h.Version < minVersion THEN errMinVersion
  ELSE IF h.Flag # flagWhoareyou /\ packetLen < minMessageSize THEN errMsgTooShort
  ELSE ErrNil

\* StaticHeader.checkValid(packetLen)
\* The message-size check made before the version check.
checkValidSizeFirst(h, packetLen) ==
  IF h.ProtocolID # protocolID THEN errInvalidHeader
  ELSE IF h.Flag # flagWhoareyou /\ packetLen < minMessageSize THEN errMsgTooShort
  ELSE IF h.Version < minVersion THEN errMinVersion
  ELSE IF h.AuthSize > packetLen THEN errAuthSize
  ELSE ErrNil

checkValid(h, packetLen) ==
  IF h.ProtocolID # protocolID THEN errInvalidHeader
  ELSE IF h.Version < minVersion THEN errMinVersion
  ELSE IF h.Flag # flagWhoareyou /\ packetLen < minMessageSize THEN errMsgTooShort
  ELSE IF h.AuthSize > packetLen THEN errAuthSize
  ELSE ErrNil

Ret5(e, b, c, accs) ==
  [p |-> NilPacket, err |-> e, buf |-> b, cipher |-> c, panicked |-> FALSE, acc |-> accs]

Panic5(b, c, accs) ==
  [p |-> NilPacket, err |-> "panic", buf |-> b, cipher |-> c, panicked |-> TRUE,
   acc |-> accs]

\* The length guard measured against the static header alone.
packetTooShortNoIV(b) == Len(b) < sizeofStaticHeader

\* len(buf) < sizeofStaticPacketData
packetTooShort(b) == Len(b) < sizeofStaticPacketData

\* Decode(buf, nid): the returned Packet is nil on every path, so the result
\* is the error, the buffer as Decode leaves it, and whether the masking
\* cipher was created.
discv5_Decode(b, destID) ==
  LET n == Len(b)
      acc1 == {<<0, sizeofMaskingIV, n>>, <<0, 16, Len(destID)>>,
               <<sizeofMaskingIV, sizeofStaticPacketData, n>>}
      iv == Slice(b, 0, sizeofMaskingIV)
      key == Slice(destID, 0, 16)
      remainingInput == n - sizeofStaticPacketData
      Auth(b1, authDataEnd, authData) ==
        Ret5(errTODO,
             Slice(b1, 0, sizeofStaticPacketData) \o authData \o Slice(b1, authDataEnd, n),
             TRUE,
             acc1 \cup {<<sizeofStaticPacketData, authDataEnd, n>>})
      Checked(b1, head, e) ==
        IF e # ErrNil THEN Ret5(errInvalidHeader, b1, TRUE, acc1)
        ELSE IF ~InBounds(<<sizeofStaticPacketData,
                            sizeofStaticPacketData + head.AuthSize, n>>)
          THEN Panic5(b1, TRUE,
                      acc1 \cup {<<sizeofStaticPacketData,
                                   sizeofStaticPacketData + head.AuthSize, n>>})
        ELSE Auth(b1, sizeofStaticPacketData + head.AuthSize,
                  XORKeyStream(key, iv, sizeofStaticHeader,
                               Slice(b1, sizeofStaticPacketData,
                                     sizeofStaticPacketData + head.AuthSize)))
      Parsed(b1, head) == Checked(b1, head, checkValid(head, remainingInput))
      Unmasked(staticHeader) ==
        Parsed(iv \o staticHeader \o Slice(b, sizeofStaticPacketData, n),
               readStaticHeader(staticHeader))
  IN
  IF packetTooShort(b) THEN Ret5(errTooShort, b, FALSE, {})
  ELSE IF ~InBounds(<<0, sizeofMaskingIV, n>>) THEN Panic5(b, FALSE, acc1)
  ELSE IF ~InBounds(<<sizeofMaskingIV, sizeofStaticPacketData, n>>)
    THEN Panic5(b, TRUE, acc1)
  ELSE Unmasked(XORKeyStream(key, iv, 0,
                             Slice(b, sizeofMaskingIV, sizeofStaticPacketData)))

(***************************************************************************)
(* Input buffers.  discv4 packets are assembled from a signature, a type   *)
(* tag and an RLP body, under a correct or a corrupted mac; discv5 packets *)
(* from a static header masked for a node id.  Truncations and constant    *)
(* buffers cover the short lengths.                                        *)
(***************************************************************************)
\* Most extra trailing items after a body's required fields.
MaxExtra == 2
\* Most bytes a discv5 packet carries beyond minMessageSize after its header.
MaxPad == 1

EncStr(x) ==
  IF Len(x) = 1 /\ x[1] < 128 THEN x ELSE puthead(128, 183, Len(x)) \o x

EncList(payload) == puthead(192, 247, Len(payload)) \o payload

RECURSIVE Concat(_)
Concat(ss) == IF ss = <<>> THEN <<>> ELSE Head(ss) \o Concat(Tail(ss))

EncEndpoint == EncList(EncStr(<<127, 0, 0, 1>>) \o EncStr(<<118, 95>>) \o EncStr(<<118, 95>>))

EncNode ==
  EncList(EncStr(<<10, 0, 0, 2>>) \o EncStr(<<118, 95>>) \o EncStr(<<118, 96>>)
          \o EncStr(Rep(9, NodeIDLen)))

EncExpiration == EncStr(<<3, 232>>)

Variants == <<"Ping", "Pong", "FindNode", "Neighbors">>

\* The encoded required fields of a variant, in order.
Required(T) ==
  CASE T = "Ping" -> <<EncStr(<<4>>), EncEndpoint, EncEndpoint, EncExpiration>>
    [] T = "Pong" -> <<EncEndpoint, EncStr(Rep(170, 32)), EncExpiration>>
    [] T = "FindNode" -> <<EncStr(Rep(9, NodeIDLen)), EncExpiration>>
    [] T = "Neighbors" -> <<EncList(EncNode \o EncNode), EncExpiration>>

\* Encoded items a newer sender may append: a single byte, a short string,
\* a list, a string in the long form.
ExtraPool == <<<<1>>, EncStr(<<200, 1>>), EncList(<<5>> \o EncStr(<<129>>)), EncStr(Rep(66, 56))>>

Extras == UNION {[1..k -> 1..Len(ExtraPool)] : k \in 0..MaxExtra}

ExtraItems(x) == [i \in 1..Len(x) |-> ExtraPool[x[i]]]

FullBody(T, x) == EncList(Concat(Required(T)) \o Concat(ExtraItems(x)))

ShortBody(T, k) == EncList(Concat(SubSeq(Required(T), 1, k)))

\* Bodies that are no list, end inside an item, or hold a malformed field.
BadBodies ==
  { <<>>, EncStr(<<1, 2, 3>>), <<200, 4, 131, 1>>,
    EncList(<<0>> \o EncEndpoint \o EncEndpoint \o EncExpiration),
    EncList(Concat(Required("Ping")) \o <<184, 1, 5>>) }

TagOf(T) ==
  CASE T = "Ping" -> PacketPing
    [] T = "Pong" -> PacketPong
    [] T = "FindNode" -> PacketFindNode
    [] T = "Neighbors" -> PacketNeighbors

Tags == {0, 1, 2, 3, 4, 5, 6, 7, 99, 255}

SigGood == Rep(7, 64) \o <<1>>
SigBadRecID == Rep(7, 64) \o <<4>>
SigUnrecoverable == <<0>> \o Rep(7, 63) \o <<0>>
Sigs == {SigGood, SigBadRecID, SigUnrecoverable}

\* mac || signature || tag || body, the mac's first byte off by one if ~macOK.
MkV4(sig, tag, body, macOK) ==
  LET seal(rest, mac) == (IF macOK THEN mac ELSE [mac EXCEPT ![1] = (@ + 1) % 256]) \o rest
      pack(rest) == seal(rest, Keccak256(rest))
  IN  pack(sig \o <<tag>> \o body)

V4Full ==
  {MkV4(SigGood, TagOf(Variants[v]), FullBody(Variants[v], x), TRUE) :
     v \in 1..Len(Variants), x \in Extras}

V4Short ==
  UNION {{MkV4(SigGood, TagOf(Variants[v]), ShortBody(Variants[v], k), TRUE) :
            k \in 0..(Len(Required(Variants[v])) - 1)} : v \in 1..Len(Variants)}

V4Cross ==
  {MkV4(sig, tag, body, ok) :
     sig \in Sigs, tag \in Tags, ok \in BOOLEAN,
     body \in {<<>>, FullBody("Ping", <<>>), FullBody("Pong", <<1>>)}}

V4Bad == {MkV4(SigGood, tag, body, TRUE) : tag \in 1..4, body \in BadBodies}

ShortLens == {0, 1, 16, 22, 23, 31, 32, 33, 38, 39, 96, 97, 98}

Truncated ==
  {Slice(MkV4(SigGood, PacketPing, FullBody("Ping", <<>>), TRUE), 0, n) : n \in ShortLens}
  \cup {Rep(b, n) : b \in {0, 255}, n \in ShortLens}

NidA == [i \in 1..32 |-> i]
NidB == [i \in 1..32 |-> 255 - i]

IVs == {Rep(0, 16), [i \in 1..16 |-> 3 * i]}

BE2(v) == <<v \div 256, v % 256>>

\* masking-iv || masked(static header || auth data) || message bytes
MkV5(iv, maskID, proto, version, flag, authsize, tailLen) ==
  LET header == proto \o BE2(version) \o <<flag>> \o Rep(17, gcmNonceSize) \o BE2(authsize)
      a == IF authsize < tailLen THEN authsize ELSE tailLen
      plain == header \o Rep(187, a)
  IN  iv \o XORKeyStream(Slice(maskID, 0, 16), iv, 0, plain) \o Rep(204, tailLen - a)

Flags == {flagMessage, flagWhoareyou, flagHandshake, 3, 255}

TailLens == {0, 24, 47} \cup (minMessageSize..(minMessageSize + MaxPad))

AuthSizes == {0, 24, 32, 48, 50, 65535}

V5Headers ==
  {MkV5(Rep(0, 16), NidA, protocolID, ver, flag, asz, tl) :
     ver \in {0, 1}, flag \in Flags, asz \in AuthSizes, tl \in TailLens}

V5BadProto ==
  {MkV5(iv, NidA, proto, 1, flag, asz, tl) :
     iv \in IVs, proto \in {<<100, 105, 115, 99, 118, 52>>, <<68, 105, 115, 99, 118, 53>>},
     flag \in Flags, asz \in {0, 32, 65535}, tl \in {0, 48}}

V4Inputs == V4Full \cup V4Short \cup V4Cross \cup V4Bad \cup Truncated

V5Inputs == V5Headers \cup V5BadProto

(***************************************************************************)
(* The state machine: a buffer arrives; one of the decoders is applied.    *)
(***************************************************************************)
\* No capture loop is running.
LoopIdle ==
  /\ prog = "none"
  /\ pkts = <<>>
  /\ lstate = "idle"
  /\ logged = <<>>
  /\ ticks = 0

\* checkValid has not been called.
NoCall == [called |-> FALSE]

Init ==
  /\ \/ buf0 \in V4Inputs /\ nid = NidA
     \/ buf0 \in V5Inputs /\ nid \in {NidA, NidB}
  /\ buf = buf0
  /\ op = "init"
  /\ hash = <<>>
  /\ p = NilPacket
  /\ ptype = 0
  /\ id = ZeroNodeID
  /\ err = ErrNil
  /\ panicked = FALSE
  /\ acc = {}
  /\ cipher = FALSE
  /\ LoopIdle
  /\ cv = NoCall

\* hash, p, ptype, nodeID, err = discv4.Decode(buf)
DecodeV4 ==
  /\ op = "init"
  /\ \E r \in {discv4_Decode(buf)} :
       /\ hash' = r.hash
       /\ p' = r.p
       /\ ptype' = r.ptype
       /\ id' = r.id
       /\ err' = r.err
       /\ panicked' = r.panicked
       /\ acc' = r.acc
  /\ op' = "discv4"
  /\ UNCHANGED <<buf0, buf, nid, cipher, loopvars, cv>>

\* hash, p, id, err = Decode(buf) of discv4.go
DecodeV4v0 ==
  /\ op = "init"
  /\ \E r \in {discv4_Decode_v0(buf)} :
       /\ hash' = r.hash
       /\ p' = r.p
       /\ ptype' = r.ptype
       /\ id' = r.id
       /\ err' = r.err
       /\ panicked' = r.panicked
       /\ acc' = r.acc
  /\ op' = "discv4v0"
  /\ UNCHANGED <<buf0, buf, nid, cipher, loopvars, cv>>

\* p, err := discv5.Decode(buf, ln.ID())
DecodeV5 ==
  /\ op = "init"
  /\ \E r \in {discv5_Decode(buf, nid)} :
       /\ buf' = r.buf
       /\ p' = r.p
       /\ err' = r.err
       /\ panicked' = r.panicked
       /\ acc' = r.acc
       /\ cipher' = r.cipher
  /\ op' = "discv5"
  /\ UNCHANGED <<buf0, nid, hash, ptype, id, loopvars, cv>>

Next == DecodeV4 \/ DecodeV4v0 \/ DecodeV5

Spec == Init /\ [][Next]_vars

(***************************************************************************)
(* The capture loops of main.  A captured packet is what the loop reads    *)
(* off it: whether it has an IPv4 layer, its transport layer, the number   *)
(* of its layers, and the contents of its fourth layer, the UDP payload.   *)
(* A datagram with an empty payload has three layers: link, network, UDP.  *)
(***************************************************************************)
MaxPackets == 2
MaxTicks == 1

\* The nil packet that ends a pcap file.
NilPkt ==
  [nil |-> TRUE, ipv4 |-> FALSE, transport |-> "none", nlayers |-> 0, payload |-> <<>>]

Pkt(ipv4, transport, nlayers, payload) ==
  [nil |-> FALSE, ipv4 |-> ipv4, transport |-> transport, nlayers |-> nlayers,
   payload |-> payload]

Payloads ==
  {MkV4(SigGood, PacketPing, FullBody("Ping", <<>>), TRUE),
   MkV4(SigGood, PacketPong, <<>>, FALSE),
   MkV4(SigUnrecoverable, PacketPing, FullBody("Ping", <<>>), TRUE),
   Rep(0, 16),
   MkV5(Rep(0, 16), NidA, protocolID, 1, flagMessage, 32, minMessageSize),
   MkV5(Rep(0, 16), NidA, <<68, 105, 115, 99, 118, 53>>, 1, flagMessage, 32, minMessageSize)}

\* UDP datagrams over IPv4 with a payload or with none, one over IPv6, and
\* a frame without a transport layer, which a filter given with -f lets in.
Packets ==
  {Pkt(TRUE, "udp", 4, b) : b \in Payloads}
  \cup {Pkt(TRUE, "udp", 3, <<>>),
        Pkt(FALSE, "udp", 4, Rep(0, 16)),
        Pkt(FALSE, "none", 2, <<>>)}

PacketSeqs == UNION {[1..n -> Packets] : n \in 0..MaxPackets}

\* What one iteration leaves: the loop's state and the lines it logged.
Continue(lines) == [state |-> "running", lines |-> lines]
Crash == [state |-> "panicked", lines |-> <<>>]
Fatal(line) == [state |-> "exited", lines |-> <<line>>]

\* The packet branch of the first main, from the type assertion on.
Iterate1(pk, localID) ==
  LET body == pk.payload
      Decoded(r) ==
        IF r.panicked THEN Crash
        ELSE IF r.err # ErrNil THEN Continue(<<"[discv5] " \o r.err>>)
        ELSE Crash
  IN  IF pk.transport # "udp" THEN Crash
      ELSE IF pk.nlayers < 4 THEN Crash
      ELSE IF Len(body) = 0 THEN Continue(<<>>)
      ELSE Decoded(discv5_Decode(body, localID))

\* The packet branch of the last main, which decodes discv4 in line.
Iterate3(pk) ==
  LET body == pk.payload
      n == Len(pk.payload)
      Received(r) ==
        IF r.err # ErrNil THEN Fatal(r.err)
        ELSE Continue(<<"packet received">>
                      \o (IF body[headSize + 1] = PacketPing THEN <<"PING">> ELSE <<>>))
  IN  IF ~pk.ipv4 THEN Crash
      ELSE IF pk.nlayers < 4 THEN Crash
      ELSE IF tooSmall(body) THEN Continue(<<"packet too small">>)
      ELSE IF pk.transport # "udp" THEN Crash
      ELSE IF ~hashOK(body) THEN Continue(<<"bad hash">>)
      ELSE Received(recoverNodeID(Keccak256(Slice(body, headSize, n)),
                                  Slice(body, macSize, headSize)))

InitLoop ==
  /\ buf0 = <<>>
  /\ buf = <<>>
  /\ nid = NidA
  /\ op = "init"
  /\ hash = <<>>
  /\ p = NilPacket
  /\ ptype = 0
  /\ id = ZeroNodeID
  /\ err = ErrNil
  /\ panicked = FALSE
  /\ acc = {}
  /\ cipher = FALSE
  /\ cv = NoCall
  /\ prog \in {"main1", "main3"}
  /\ \E s \in PacketSeqs, end \in {<<>>, <<NilPkt>>} : pkts = s \o end
  /\ lstate = "running"
  /\ logged = <<>>
  /\ ticks = 0

\* case packet := <-packetSource.Packets(): if packet == nil { return }
EndOfCapture ==
  /\ lstate = "running"
  /\ pkts # <<>>
  /\ Head(pkts).nil
  /\ lstate' = "returned"
  /\ pkts' = Tail(pkts)
  /\ UNCHANGED <<decvars, prog, logged, ticks, cv>>

\* case packet := <-packetSource.Packets(), for a packet that is not nil
HandlePacket ==
  /\ lstate = "running"
  /\ pkts # <<>>
  /\ ~Head(pkts).nil
  /\ \E localID \in {NidA, NidB} :
       \E r \in {IF prog = "main1" THEN Iterate1(Head(pkts), localID)
                 ELSE Iterate3(Head(pkts))} :
         /\ lstate' = r.state
         /\ logged' = logged \o r.lines
  /\ pkts' = Tail(pkts)
  /\ UNCHANGED <<decvars, prog, ticks, cv>>

\* case <-ticker
Tick ==
  /\ lstate = "running"
  /\ ticks < MaxTicks
  /\ ticks' = ticks + 1
  /\ logged' = IF prog = "main1" THEN logged \o <<"the clock is ticking">> ELSE logged
  /\ UNCHANGED <<decvars, prog, pkts, lstate, cv>>

NextLoop == EndOfCapture \/ HandlePacket \/ Tick

SpecLoop == InitLoop /\ [][NextLoop]_vars

(***************************************************************************)
(* checkValid on its own: a static header and a remaining length are       *)
(* given, and the call records the error it returns.                       *)
(***************************************************************************)
ProtocolIDs == {protocolID, <<100, 105, 115, 99, 118, 52>>}

Versions == {0, 1, 2}

PacketLens == {0, 24, 32, 47, 48, 50}

StaticHeaders ==
  [ProtocolID : ProtocolIDs, Version : Versions, Flag : Flags,
   Nonce : {Rep(17, gcmNonceSize)}, AuthSize : AuthSizes]

InitCheckValid ==
  /\ buf0 = <<>>
  /\ buf = <<>>
  /\ nid = NidA
  /\ op = "init"
  /\ hash = <<>>
  /\ p = NilPacket
  /\ ptype = 0
  /\ id = ZeroNodeID
  /\ err = ErrNil
  /\ panicked = FALSE
  /\ acc = {}
  /\ cipher = FALSE
  /\ LoopIdle
  /\ \E h \in StaticHeaders, n \in PacketLens :
       cv = [called |-> FALSE, h |-> h, packetLen |-> n, err |-> ErrNil]

\* err := head.checkValid(remainingInput)
CheckValidCall ==
  /\ ~cv.called
  /\ cv' = [cv EXCEPT !.called = TRUE, !.err = checkValid(cv.h, cv.packetLen)]
  /\ UNCHANGED <<decvars, loopvars>>

NextCheckValid == CheckValidCall

SpecCheckValid == InitCheckValid /\ [][NextCheckValid]_vars

(***************************************************************************)
(* Properties.  The input of the call is buf0; Tag0, Body0 and Header are  *)
(* read off the buffers, not off the decoders' results.                    *)
(***************************************************************************)
V4Ops == {"discv4", "discv4v0"}

Len0 == Len(buf0)
Mac0 == SubSeq(buf0, 1, 32)
Sig0 == SubSeq(buf0, 33, 97)
Tag0 == buf0[98]
Body0 == SubSeq(buf0, 99, Len0)
MacMatches == Mac0 = Keccak256(SubSeq(buf0, 33, Len0))
Sender0 == recoverNodeID(Keccak256(SubSeq(buf0, 98, Len0)), Sig0)

\* The packet passes the length, mac and signature-recovery steps.
PassesRecovery == Len0 >= 98 /\ MacMatches /\ Sender0.err = ErrNil

\* The static header as discv5 Decode leaves it in the buffer, unmasked.
Header == readStaticHeader(SubSeq(buf, 17, 39))
Remaining == Len0 - 39

\* C1: discv4 Decode of a buffer shorter than 98 bytes returns "packet too
\* small" and no packet, without a panic and without any slice or index
\* outside the buffer.
C1_TooSmall ==
  (op \in V4Ops /\ Len0 < 98) =>
    /\ err = "packet too small"
    /\ p = NilPacket
    /\ ~panicked
    /\ \A a \in acc : InBounds(a)

C1_Witness == op = "discv4" /\ Len0 = 97 /\ err = "packet too small"

\* C2: discv4 Decode of a buffer of 98 bytes or more whose first 32 bytes
\* differ from the hash of buf[32:] returns "bad hash" and no packet,
\* whatever the signature and the type tag are.
C2_BadHash ==
  (op \in V4Ops /\ Len0 >= 98 /\ ~MacMatches) => (err = "bad hash" /\ p = NilPacket)

\* A corrupted packet with an unrecoverable signature and an unknown tag.
C2_Witness ==
  /\ op = "discv4"
  /\ Len0 >= 98
  /\ ~MacMatches
  /\ Sender0.err # ErrNil
  /\ Tag0 = 99
  /\ err = "bad hash"

\* C3: for a packet that passes the length, mac and recovery steps, discv4
\* Decode returns the unknown-type error exactly when the tag is outside the
\* PacketKind enumeration 1..6; for a tag inside it the returned kind is the
\* tag and the packet is the variant of that kind.
C3_UnknownTypeIffOutsideEnum ==
  (op = "discv4" /\ PassesRecovery) =>
    /\ (err = UnknownType(Tag0)) <=> (Tag0 \notin PacketPing..PacketENRResponse)
    /\ (Tag0 \in PacketPing..PacketENRResponse) => (ptype = Tag0 /\ p # NilPacket)

\* C4: a body holding a variant's required fields followed by extra encoded
\* items decodes without error, the extra items kept in order and unchanged
\* in Rest; a body list with fewer items than the required fields is an error.
C4_TailTolerant ==
  (op \in V4Ops /\ PassesRecovery /\ Tag0 \in PacketPing..PacketNeighbors) =>
    /\ \A x \in Extras :
         (Body0 = FullBody(variantOf(Tag0), x)) =>
           /\ err = ErrNil
           /\ p.kind = variantOf(Tag0)
           /\ p.val.Rest = ExtraItems(x)
           /\ p.val.Expiration = <<3, 232>>
    /\ \A k \in 0..(Len(Required(variantOf(Tag0))) - 1) :
         (Body0 = ShortBody(variantOf(Tag0), k)) => (err # ErrNil /\ err # "panic")

\* A Neighbors packet decoded with two extra items, a list and a long string.
C4_Witness ==
  /\ op = "discv4"
  /\ err = ErrNil
  /\ p.kind = "Neighbors"
  /\ Body0 = FullBody("Neighbors", <<3, 4>>)
  /\ p.val.Rest = <<ExtraPool[3], ExtraPool[4]>>

\* C5: an error from a step after the sender was recovered (unknown type
\* tag, body decode failure) comes with the mac buf[0:32] and the recovered
\* sender, not the zero NodeID.
C5_PartialSender ==
  (op \in V4Ops /\ PassesRecovery /\ err # ErrNil) =>
    /\ hash = Mac0
    /\ id = Sender0.id
    /\ id # ZeroNodeID

\* C6: discv5 Decode of a buffer shorter than 16 + 23 bytes returns "packet
\* too short" and no packet, before the cipher is created and before any
\* byte of the buffer is unmasked.
C6_TooShort ==
  (op = "discv5" /\ Len0 < 16 + 23) =>
    /\ err = errTooShort
    /\ p = NilPacket
    /\ ~cipher
    /\ buf = buf0
    /\ ~panicked

C6_Witness == op = "discv5" /\ Len0 = 38 /\ err = errTooShort /\ ~cipher

\* C7: discv5 Decode of a buffer of 16 + 23 bytes or more whose unmasked
\* protocol-id is not "discv5" returns the invalid-header error, whatever
\* the rest of the header and of the packet is.
C7_BadProtocolID ==
  (op = "discv5" /\ Len0 >= 39 /\ Header.ProtocolID # protocolID) =>
    err = errInvalidHeader

\* A header wrong in its protocol-id only.
C7_Witness ==
  /\ op = "discv5"
  /\ Len0 >= 39
  /\ Header.ProtocolID # protocolID
  /\ Header.Version >= minVersion
  /\ Header.Flag = flagMessage
  /\ Remaining >= minMessageSize
  /\ Header.AuthSize <= Remaining
  /\ err = errInvalidHeader

\* C8: discv5 Decode reports a header with valid protocol-id and version as
\* MessageTooShort when its flag is not WHOAREYOU and fewer than 48 bytes
\* follow the static header, and as AuthSizeOverflow when its auth-size
\* exceeds the bytes that follow.
C8_SpecificHeaderErrors ==
  (/\ op = "discv5"
   /\ Len0 >= 39
   /\ Header.ProtocolID = protocolID
   /\ Header.Version >= minVersion) =>
    /\ (Header.Flag # flagWhoareyou /\ Remaining < minMessageSize) => err = errMsgTooShort
    /\ (/\ ~(Header.Flag # flagWhoareyou /\ Remaining < minMessageSize)
        /\ Header.AuthSize > Remaining) => err = errAuthSize

\* C9: a header that passes the protocol-id, version and size checks but
\* whose flag is none of 0, 1, 2 makes discv5 Decode return InvalidFlag.
C9_InvalidFlag ==
  (/\ op = "discv5"
   /\ Len0 >= 39
   /\ checkValid(Header, Remaining) = ErrNil
   /\ Header.Flag \notin {flagMessage, flagWhoareyou, flagHandshake}) =>
    err = errInvalidFlag

\* C10: every slice and index either decoder takes lies within the buffer
\* and neither panics; discv5 Decode unmasks auth data only when
\* 16 + 23 + auth-size <= len(buf), and discv4 Decode reads the type tag at
\* offset 97 only when len(buf) >= 98.
C10_InBounds ==
  (op # "init") =>
    /\ ~panicked
    /\ \A a \in acc : InBounds(a)
    /\ (op = "discv5") =>
         /\ \A a \in acc : (a[1] = 39) =>
              (a[2] = 39 + Header.AuthSize /\ 16 + 23 + Header.AuthSize <= Len0)
         /\ (err = errTODO) => <<39, 39 + Header.AuthSize, Len0>> \in acc
    /\ (op \in V4Ops /\ <<97, 98, Len0>> \in acc) => Len0 >= 98

\* Auth data that ends exactly at the end of the buffer is unmasked.
C10_Witness ==
  /\ op = "discv5"
  /\ err = errTODO
  /\ Header.AuthSize = minMessageSize
  /\ 39 + Header.AuthSize = Len0
  /\ <<39, Len0, Len0>> \in acc

\* C11: in the capture loop no packet ends the process: whatever packets
\* the source delivers, the loop neither panics nor exits; it is running,
\* or it has returned on the nil packet that ends the capture.
C11_LoopSurvives == lstate \in {"running", "returned"}

\* The bytes (numbered from 0) at which Decode left the buffer changed.
Written == {i \in 0..(Len0 - 1) : buf[i + 1] # buf0[i + 1]}

\* C12: discv4 Decode leaves the buffer as it was.  discv5 Decode keeps its
\* length and changes bytes only in the static header [16, 39) and, once
\* the header passed validation, in the auth data [39, 39 + auth-size); the
\* masking IV and every byte after the auth data stay as they were, and the
\* too-short error leaves the whole buffer untouched.
C12_Frame ==
  /\ op \in V4Ops => buf = buf0
  /\ op = "discv5" =>
       /\ Len(buf) = Len0
       /\ err = errTooShort => buf = buf0
       /\ err = errTODO => Written \subseteq 16..(39 + Header.AuthSize - 1)
       /\ err # errTODO => Written \subseteq 16..38

\* A header passes validation with auth data shorter than what follows the
\* header: header and auth data are unmasked, the bytes after them kept.
C12_Witness ==
  /\ op = "discv5"
  /\ err = errTODO
  /\ Header.AuthSize > 0
  /\ Len0 > 39 + Header.AuthSize
  /\ \E i \in Written : i < 39
  /\ \E i \in Written : i >= 39
  /\ SubSeq(buf, 39 + Header.AuthSize + 1, Len0) = SubSeq(buf0, 39 + Header.AuthSize + 1, Len0)

\* What checkValid was given, condition by condition.
BadProtocolID == cv.h.ProtocolID # protocolID
OldVersion == cv.h.Version < minVersion
ShortMessage == cv.h.Flag # flagWhoareyou /\ cv.packetLen < minMessageSize
BigAuthSize == cv.h.AuthSize > cv.packetLen

\* C13: checkValid returns the error of the first check that fails, in the
\* order protocol id, version, 48-byte minimum (not applied to WHOAREYOU),
\* auth size; it returns nil exactly when none of the four fails.
C13_CheckOrder ==
  cv.called =>
    /\ BadProtocolID => cv.err = errInvalidHeader
    /\ ~BadProtocolID /\ OldVersion => cv.err = errMinVersion
    /\ ~BadProtocolID /\ ~OldVersion /\ ShortMessage => cv.err = errMsgTooShort
    /\ ~BadProtocolID /\ ~OldVersion /\ ~ShortMessage /\ BigAuthSize => cv.err = errAuthSize
    /\ cv.err = ErrNil <=> ~(BadProtocolID \/ OldVersion \/ ShortMessage \/ BigAuthSize)
    /\ (cv.h.Flag = flagWhoareyou /\ cv.packetLen < minMessageSize
          /\ ~BadProtocolID /\ ~OldVersion /\ ~BigAuthSize) => cv.err = ErrNil

\* A header failing the version, size and auth-size checks at once gets the
\* version error.
C13_Witness ==
  /\ cv.called
  /\ ~BadProtocolID
  /\ OldVersion
  /\ ShortMessage
  /\ BigAuthSize
  /\ cv.err = errMinVersion

====
